---------------------------- MODULE Spec2Model ----------------------------
(***************************************************************************)
(* Model of "dashboard generator/optional_step_RQA.py": the recurrence     *)
(* quantification pipeline of the DIMS dashboard.                          *)
(*                                                                         *)
(* Two specifications share the operators that model the functions:        *)
(*   SpecFn  applies calculate_recurrence_matrix, downsample_for_          *)
(*           visualization (twice), matrix_to_sparse_format and the record *)
(*           assembly to inputs drawn from bounded sets, with max_points   *)
(*           and the threshold as parameters, as the functions take them;  *)
(*   Spec    is main(): the batch loop over (video, data type) pairs that  *)
(*           calls process_rqa_for_datatype with the defaults.             *)
(*                                                                         *)
(* Numbers.  The series hold integers.  With n = len, S = sum x and        *)
(* V = n*sum(x^2) - S^2 (so that std = sqrt(V)/n), a normalized value      *)
(* (x - mean)/std is (n*x - S)/sqrt(V).  A normalized value or a distance  *)
(* is kept as [nan, raw], standing for raw/sqrt(V); V = 0 gives 0/0 = NaN. *)
(* A threshold is [nan, unit, num, den]: num/den ("abs", a caller's fixed  *)
(* threshold) or num/(den*sqrt(V)) ("sigma", a percentile of distances).   *)
(* Matrix rows and columns are 1-based here; the [row, col] pairs of the   *)
(* sparse format are 0-based as in the code.                               *)
(***************************************************************************)
EXTENDS Integers, Sequences, FiniteSets

\* Bounds of the function-level specification.
MaxLen == 5
MaxMP == 3

\* Program constants.
MIN_POINTS == 10
MAX_POINTS == 500
TARGET_PCT == 7

\* Python's None.
None == [kind |-> "None"]
\* A missing cell of a CSV column (what pd.isna answers True for).
NA == -1

Vals == {0, 1, 3}
FixedThresholds ==
  { [nan |-> FALSE, unit |-> "abs", num |-> 0, den |-> 1],
    [nan |-> FALSE, unit |-> "abs", num |-> 3, den |-> 2] }

VARIABLES
  fpc,          \* SpecFn: position in the chain of function applications
  inp,          \* SpecFn: the arguments (data, time, threshold, max_points)
  rec,          \* SpecFn: what calculate_recurrence_matrix returned
  vis,          \* SpecFn: what downsample_for_visualization returned
  vis2,         \* SpecFn: what a second application returned
  result,       \* SpecFn: the assembled record
  pc,           \* Spec: position of main()
  config,       \* Spec: the loaded config.json
  vi,           \* Spec: index of the video of the outer loop (0-based)
  di,           \* Spec: index of the data type of the inner loop (0-based)
  rqa_results,  \* Spec: data type -> record, for the current video
  outputs,      \* Spec: the files written, in order
  last          \* Spec: the last call of process_rqa_for_datatype

fnvars == <<fpc, inp, rec, vis, vis2, result>>
mainvars == <<pc, config, vi, di, rqa_results, outputs, last>>
vars == <<fpc, inp, rec, vis, vis2, result, pc, config, vi, di, rqa_results, outputs, last>>

-----------------------------------------------------------------------------
\* Arithmetic helpers

RECURSIVE SumSeq(_)
SumSeq(s) == IF Len(s) = 0 THEN 0 ELSE s[1] + SumSeq(Tail(s))

Abs(x) == IF x < 0 THEN -x ELSE x

\* n^2 * variance of the series: 0 exactly when all values are equal.
VarScaled(ts) ==
  LET n == Len(ts)
      S == SumSeq(ts)
  IN n * SumSeq([i \in 1..n |-> ts[i] * ts[i]]) - S * S

\* (time_series - mean) / std; a zero std divides 0 by 0 in every position.
Normalize(ts) ==
  LET n == Len(ts)
      S == SumSeq(ts)
  IN [i \in 1..n |->
        IF VarScaled(ts) = 0
        THEN [nan |-> TRUE, raw |-> 0]
        ELSE [nan |-> FALSE, raw |-> n * ts[i] - S]]

\* cdist(ts_reshaped, ts_reshaped, 'euclidean') on scalar points.
Cdist(z) ==
  [i \in 1..Len(z) |-> [j \in 1..Len(z) |->
     IF z[i].nan \/ z[j].nan
     THEN [nan |-> TRUE, raw |-> 0]
     ELSE [nan |-> FALSE, raw |-> Abs(z[i].raw - z[j].raw)]]]

\* np.triu_indices_from(distance_matrix, k=1)
TriuIndices(n) == {p \in (1..n) \X (1..n) : p[1] < p[2]}

\* The k-th smallest (k from 0) of the values f takes on the set idx.
OrderStat(f, idx, k) ==
  CHOOSE v \in {f[p] : p \in idx} :
    /\ Cardinality({p \in idx : f[p] < v}) <= k
    /\ Cardinality({p \in idx : f[p] <= v}) > k

\* np.percentile(upper_triangle, q), linear interpolation between order
\* statistics at rank q/100 * (m - 1); a NaN among the values gives NaN.
Percentile(D, q) ==
  LET n == Len(D)
      idx == TriuIndices(n)
      m == Cardinality(idx)
      f == [p \in idx |-> D[p[1]][p[2]].raw]
      lo == (q * (m - 1)) \div 100
      fr == (q * (m - 1)) % 100
      hi == IF lo + 1 <= m - 1 THEN lo + 1 ELSE lo
  IN IF \E p \in idx : D[p[1]][p[2]].nan
     THEN [nan |-> TRUE, unit |-> "sigma", num |-> 0, den |-> 1]
     ELSE [nan |-> FALSE, unit |-> "sigma",
           num |-> 100 * OrderStat(f, idx, lo)
                   + fr * (OrderStat(f, idx, hi) - OrderStat(f, idx, lo)),
           den |-> 100]

\* distance <= threshold, as IEEE compares: false when either side is NaN.
Leq(d, thr, V) ==
  IF d.nan \/ thr.nan THEN FALSE
  ELSE IF thr.unit = "sigma" THEN d.raw * thr.den <= thr.num
  ELSE d.raw * d.raw * thr.den * thr.den <= thr.num * thr.num * V

\* (distance_matrix <= threshold).astype(np.uint8)
Binarize(D, thr, V) ==
  [i \in 1..Len(D) |-> [j \in 1..Len(D) |-> IF Leq(D[i][j], thr, V) THEN 1 ELSE 0]]

\* np.sum(recurrence_matrix)
MatrixSum(M) == SumSeq([i \in 1..Len(M) |-> SumSeq(M[i])])

\* (np.sum(recurrence_matrix) - n) / (n * n - n), kept as a fraction.
\* np.sum yields an unsigned 64-bit scalar: a difference below zero is either
\* the negative number (promotion to float) or, wrapped, num + 2^64, by the
\* numpy build; w is the build's choice.
RecurrenceRate(M, w) ==
  [num |-> MatrixSum(M) - Len(M),
   den |-> Len(M) * Len(M) - Len(M),
   wrapped |-> w /\ MatrixSum(M) < Len(M)]

\* calculate_recurrence_matrix(time_series, threshold, target_recurrence)
CalculateRecurrenceMatrix(ts, threshold, w) ==
  LET D == Cdist(Normalize(ts))
      thr == IF threshold = None THEN Percentile(D, TARGET_PCT) ELSE threshold
      M == Binarize(D, thr, VarScaled(ts))
  IN [matrix |-> M, threshold |-> thr, rate |-> RecurrenceRate(M, w)]

-----------------------------------------------------------------------------
\* matrix_to_sparse_format

\* Row-major scan positions of an n x n matrix, 0-based.
ScanOrder(n) == [k \in 1..(n * n) |-> <<(k - 1) \div n, (k - 1) % n>>]

\* A faulty variant: the pairs counted from 1.
MatrixToSparseOneBased(M) ==
  LET hit(p) == M[p[1] + 1][p[2] + 1] = 1
      s == SelectSeq(ScanOrder(Len(M)), hit)
  IN [k \in 1..Len(s) |-> <<s[k][1] + 1, s[k][2] + 1>>]

\* np.where(matrix == 1) zipped into [row, col] pairs.
MatrixToSparse(M) ==
  LET hit(p) == M[p[1] + 1][p[2] + 1] = 1
  IN SelectSeq(ScanOrder(Len(M)), hit)

-----------------------------------------------------------------------------
\* downsample_for_visualization

\* A faulty variant: the factor rounded up.
FactorCeil(n, mp) == (n + mp - 1) \div mp

\* factor = n_points // max_points
Factor(n, mp) == n \div mp

\* len(seq[::f])
SliceLen(n, f) == (n + f - 1) \div f

\* A faulty variant: seq[f-1::f], the first kept index being f - 1.
SliceOff(s, f) == [p \in 1..(Len(s) \div f) |-> s[p * f]]

\* seq[::f]
Slice(s, f) == [p \in 1..SliceLen(Len(s), f) |-> s[(p - 1) * f + 1]]

\* recurrence_matrix[::f, ::f]
SliceMatrix(M, f) == Slice([r \in 1..Len(M) |-> Slice(M[r], f)], f)

\* A faulty variant: the early return hands back times and values swapped.
DownsampleSwapped(ts, tv, M, mp) ==
  IF Len(ts) <= mp
  THEN [data |-> tv, time |-> ts, matrix |-> M]
  ELSE [data |-> Slice(ts, Factor(Len(ts), mp)),
        time |-> Slice(tv, Factor(Len(ts), mp)),
        matrix |-> SliceMatrix(M, Factor(Len(ts), mp))]

Downsample(ts, tv, M, mp) ==
  IF Len(ts) <= mp
  THEN [data |-> ts, time |-> tv, matrix |-> M]
  ELSE [data |-> Slice(ts, Factor(Len(ts), mp)),
        time |-> Slice(tv, Factor(Len(ts), mp)),
        matrix |-> SliceMatrix(M, Factor(Len(ts), mp))]

-----------------------------------------------------------------------------
\* The result record of process_rqa_for_datatype

BuildResult(data_type, r, time_clean, data_clean, v, sparse) ==
  [data_type |-> data_type,
   threshold |-> r.threshold,
   recurrence_rate |-> r.rate,
   time_range |-> <<time_clean[1], time_clean[Len(time_clean)]>>,
   visualization |-> [time |-> v.time,
                      data |-> v.data,
                      matrix_size |-> Len(v.time),
                      sparse_matrix |-> sparse],
   full_data |-> [n_points |-> Len(data_clean),
                  time_range |-> <<time_clean[1], time_clean[Len(time_clean)]>>]]

-----------------------------------------------------------------------------
\* SpecFn: the functions applied to bounded inputs

NoConfig == [has_include |-> FALSE, include_RQA |-> <<>>, videoIDs |-> <<>>]

TimeOrders(n) == { [i \in 1..n |-> 10 + i], [i \in 1..n |-> 10 + n + 1 - i] }

\* The argument tuples with a series of length n.  Lengths start at 2: with a
\* single point the upper triangle is empty and n*n - n is 0.
FnInputs(n) ==
  { [data |-> d, time |-> t, threshold |-> th, max_points |-> mp] :
      d \in [1..n -> Vals], t \in TimeOrders(n),
      th \in {None} \cup FixedThresholds, mp \in 1..MaxMP }

MainIdle ==
  /\ pc = "off"
  /\ config = NoConfig
  /\ vi = 0
  /\ di = 0
  /\ rqa_results = <<>>
  /\ outputs = <<>>
  /\ last = None

FnInit ==
  /\ fpc = "input"
  /\ \E n \in 2..MaxLen : inp \in FnInputs(n)
  /\ rec = None
  /\ vis = None
  /\ vis2 = None
  /\ result = None
  /\ MainIdle

FnCalculate ==
  /\ fpc = "input"
  /\ \E w \in BOOLEAN : rec' = CalculateRecurrenceMatrix(inp.data, inp.threshold, w)
  /\ fpc' = "recurrence"
  /\ UNCHANGED <<inp, vis, vis2, result>>
  /\ UNCHANGED mainvars

FnDownsample ==
  /\ fpc = "recurrence"
  /\ vis' = Downsample(inp.data, inp.time, rec.matrix, inp.max_points)
  /\ fpc' = "downsampled"
  /\ UNCHANGED <<inp, rec, vis2, result>>
  /\ UNCHANGED mainvars

FnEncode ==
  /\ fpc = "downsampled"
  /\ result' = BuildResult("fn", rec, inp.time, inp.data, vis, MatrixToSparse(vis.matrix))
  /\ fpc' = "encoded"
  /\ UNCHANGED <<inp, rec, vis, vis2>>
  /\ UNCHANGED mainvars

FnDownsampleAgain ==
  /\ fpc = "encoded"
  /\ vis2' = Downsample(vis.data, vis.time, vis.matrix, inp.max_points)
  /\ fpc' = "done"
  /\ UNCHANGED <<inp, rec, vis, result>>
  /\ UNCHANGED mainvars

FnNext == FnCalculate \/ FnDownsample \/ FnEncode \/ FnDownsampleAgain

SpecFn == FnInit /\ [][FnNext]_vars

-----------------------------------------------------------------------------
\* process_rqa_for_datatype: one CSV source, read with pandas

\* A source: whether the path exists, the header, and each column's cells.
MkFile(columns, cells) == [exists |-> TRUE, columns |-> columns, cells |-> cells]
MissingFile == [exists |-> FALSE, columns |-> <<>>, cells |-> <<>>]

\* [col for col in df.columns if col != 'Time']
DataCols(f) == SelectSeq(f.columns, LAMBDA c : c # "Time")

HasTime(f) == \E k \in 1..Len(f.columns) : f.columns[k] = "Time"

\* mask = ~pd.isna(df[data_col]): the row numbers kept, in order.
Mask(f) ==
  LET col == f.cells[DataCols(f)[1]]
  IN SelectSeq([k \in 1..Len(col) |-> k], LAMBDA k : col[k] # NA)

\* df['Time'][mask].values
TimeClean(f) == [k \in 1..Len(Mask(f)) |-> f.cells["Time"][Mask(f)[k]]]

\* df[data_col][mask].values
DataClean(f) == [k \in 1..Len(Mask(f)) |-> f.cells[DataCols(f)[1]][Mask(f)[k]]]

\* A faulty variant: the length check off by one.
InsufficientLax(data_clean) == Len(data_clean) < MIN_POINTS - 1

\* len(data_clean) < 10
Insufficient(data_clean) == Len(data_clean) < MIN_POINTS

Returns(value, stages) == [kind |-> "return", value |-> value, stages |-> stages]
Raises(error) == [kind |-> "raise", value |-> None, stages |-> <<>>, error |-> error]

\* Lines 126-155: the stages in order and the record they give.
Pipeline(data_type, time_clean, data_clean, w) ==
  LET r == CalculateRecurrenceMatrix(data_clean, None, w)
      v == Downsample(data_clean, time_clean, r.matrix, MAX_POINTS)
      sparse == MatrixToSparse(v.matrix)
  IN Returns(BuildResult(data_type, r, time_clean, data_clean, v, sparse),
             <<"calculate_recurrence_matrix", "downsample_for_visualization",
               "matrix_to_sparse_format">>)

\* process_rqa_for_datatype(video_id, data_type), f being the source at csv_path.
ProcessRqa(f, data_type, w) ==
  IF ~f.exists THEN Returns(None, <<>>)
  ELSE IF ~HasTime(f) THEN Returns(None, <<>>)
  ELSE IF Len(DataCols(f)) = 0 THEN Raises("IndexError")
  ELSE IF Insufficient(DataClean(f)) THEN Returns(None, <<>>)
  ELSE Pipeline(data_type, TimeClean(f), DataClean(f), w)

-----------------------------------------------------------------------------
\* The sources a run may meet

Ascending(n) == [i \in 1..n |-> i]
Descending(n) == [i \in 1..n |-> n + 1 - i]
Wave(n) == [i \in 1..n |-> i % 3]
Outlier(n) == [i \in 1..n |-> IF i = n THEN 3 ELSE 0]
Flat(n) == [i \in 1..n |-> 1]
Holed(s) == [i \in 1..Len(s) |-> IF i = 2 THEN NA ELSE s[i]]
Blank(n) == [i \in 1..n |-> NA]

Files ==
  { MissingFile,
    MkFile(<<"x">>, [x |-> Wave(MIN_POINTS)]),
    MkFile(<<"Time">>, [Time |-> Ascending(MIN_POINTS)]),
    MkFile(<<"Time", "x">>, [Time |-> <<>>, x |-> <<>>]),
    MkFile(<<"Time", "x">>, [Time |-> Ascending(MIN_POINTS), x |-> Blank(MIN_POINTS)]),
    MkFile(<<"Time", "x">>, [Time |-> Ascending(MIN_POINTS - 1), x |-> Wave(MIN_POINTS - 1)]),
    MkFile(<<"Time", "x">>, [Time |-> Ascending(MIN_POINTS), x |-> Holed(Wave(MIN_POINTS))]),
    MkFile(<<"Time", "x">>, [Time |-> Descending(MIN_POINTS), x |-> Holed(Flat(MIN_POINTS))]),
    MkFile(<<"Time", "x">>, [Time |-> Ascending(MIN_POINTS), x |-> Wave(MIN_POINTS)]),
    MkFile(<<"Time", "x">>, [Time |-> Ascending(MIN_POINTS), x |-> Flat(MIN_POINTS)]),
    MkFile(<<"x", "Time", "y">>, [Time |-> Descending(MIN_POINTS), x |-> Outlier(MIN_POINTS),
                                    y |-> Flat(MIN_POINTS)]),
    MkFile(<<"Time", "x">>, [Time |-> Descending(MIN_POINTS + 1),
                               x |-> Holed(Wave(MIN_POINTS + 1))]) }

Configs ==
  { [has_include |-> h, include_RQA |-> t, videoIDs |-> v] :
      h \in BOOLEAN,
      t \in { <<>>, <<"a">>, <<"a", "b", "a">> },
      v \in { <<"v1">>, <<"v1", "v2">> } }

-----------------------------------------------------------------------------
\* main()

\* list(dict.fromkeys(seq)): the first occurrence of each element, in order.
RECURSIVE Dedupe(_)
Dedupe(s) ==
  IF Len(s) = 0 THEN <<>>
  ELSE LET init == Dedupe(SubSeq(s, 1, Len(s) - 1))
           x == s[Len(s)]
       IN IF \E k \in 1..Len(init) : init[k] = x THEN init ELSE Append(init, x)

\* rqa_data_types
DataTypes == Dedupe(config.include_RQA)

\* 'include_RQA' not in config or not config['include_RQA']
NoRqa == ~config.has_include \/ Len(config.include_RQA) = 0

FnIdle ==
  /\ fpc = "off"
  /\ inp = None
  /\ rec = None
  /\ vis = None
  /\ vis2 = None
  /\ result = None

Init ==
  /\ pc = "start"
  /\ config \in Configs
  /\ vi = 0
  /\ di = 0
  /\ rqa_results = <<>>
  /\ outputs = <<>>
  /\ last = None
  /\ FnIdle

\* Lines 167-170: nothing requested, the run is a no-op.
NoRqaRequested ==
  /\ pc = "start"
  /\ NoRqa
  /\ pc' = "done"
  /\ UNCHANGED <<config, vi, di, rqa_results, outputs, last>>
  /\ UNCHANGED fnvars

\* Lines 172-176: the outer loop starts.
BeginBatch ==
  /\ pc = "start"
  /\ ~NoRqa
  /\ pc' = "videos"
  /\ UNCHANGED <<config, vi, di, rqa_results, outputs, last>>
  /\ UNCHANGED fnvars

\* Lines 176-185: the next video, with an empty rqa_results.
NextVideo ==
  /\ pc = "videos"
  /\ vi < Len(config.videoIDs)
  /\ rqa_results' = <<>>
  /\ di' = 0
  /\ pc' = "types"
  /\ UNCHANGED <<config, vi, outputs, last>>
  /\ UNCHANGED fnvars

\* Lines 186-189: one pair, whose call returns.
ProcessPairReturns ==
  /\ pc = "types"
  /\ di < Len(DataTypes)
  /\ \E f \in Files, w \in BOOLEAN :
       LET dt == DataTypes[di + 1]
           out == ProcessRqa(f, dt, w)
       IN /\ out.kind = "return"
          /\ last' = [video |-> config.videoIDs[vi + 1], data_type |-> dt,
                      file |-> f, outcome |-> out]
          /\ rqa_results' = IF out.value # None
                            THEN Append(rqa_results, [key |-> dt, value |-> out.value])
                            ELSE rqa_results
  /\ di' = di + 1
  /\ UNCHANGED <<pc, config, vi, outputs>>
  /\ UNCHANGED fnvars

\* Lines 186-187: one pair, whose call raises; nothing in main() catches it.
ProcessPairRaises ==
  /\ pc = "types"
  /\ di < Len(DataTypes)
  /\ \E f \in Files, w \in BOOLEAN :
       LET dt == DataTypes[di + 1]
           out == ProcessRqa(f, dt, w)
       IN /\ out.kind = "raise"
          /\ last' = [video |-> config.videoIDs[vi + 1], data_type |-> dt,
                      file |-> f, outcome |-> out]
  /\ pc' = "crashed"
  /\ UNCHANGED <<config, vi, di, rqa_results, outputs>>
  /\ UNCHANGED fnvars

\* Lines 191-199: the video's records are written when there are any.
SaveVideo ==
  /\ pc = "types"
  /\ di >= Len(DataTypes)
  /\ outputs' = IF Len(rqa_results) > 0
                THEN Append(outputs, [video_id |-> config.videoIDs[vi + 1],
                                      rqa_data |-> rqa_results])
                ELSE outputs
  /\ vi' = vi + 1
  /\ pc' = "videos"
  /\ UNCHANGED <<config, di, rqa_results, last>>
  /\ UNCHANGED fnvars

\* Line 209: the loop is over.
Finish ==
  /\ pc = "videos"
  /\ vi >= Len(config.videoIDs)
  /\ pc' = "done"
  /\ UNCHANGED <<config, vi, di, rqa_results, outputs, last>>
  /\ UNCHANGED fnvars

Next ==
  \/ NoRqaRequested
  \/ BeginBatch
  \/ NextVideo
  \/ ProcessPairReturns
  \/ ProcessPairRaises
  \/ SaveVideo
  \/ Finish

Spec == Init /\ [][Next]_vars

-----------------------------------------------------------------------------
\* Properties of the functions (checked under SpecFn)

Calculated == fpc \in {"recurrence", "downsampled", "encoded", "done"}
Downsampled == fpc \in {"downsampled", "encoded", "done"}
Encoded == fpc \in {"encoded", "done"}

OffDiagonalOnes(M) ==
  Cardinality({p \in (1..Len(M)) \X (1..Len(M)) : p[1] # p[2] /\ M[p[1]][p[2]] = 1})

\* C1: for every series and every threshold, the matrix returned by
\* calculate_recurrence_matrix is symmetric and every diagonal entry is 1.
C1_SymmetricUnitDiagonal ==
  Calculated =>
    \A i \in 1..Len(rec.matrix) :
      /\ rec.matrix[i][i] = 1
      /\ \A j \in 1..Len(rec.matrix) : rec.matrix[i][j] = rec.matrix[j][i]

\* C2: the recurrence rate returned equals k/(n^2 - n), k the number of
\* off-diagonal 1-entries of the full-resolution matrix, and so lies in [0,1].
C2_RateIsOffDiagonalFraction ==
  Calculated =>
    LET n == Len(inp.data)
        k == OffDiagonalOnes(rec.matrix)
    IN /\ ~rec.rate.wrapped
       /\ rec.rate.num * (n * n - n) = k * rec.rate.den
       /\ rec.rate.den > 0
       /\ 0 <= rec.rate.num
       /\ rec.rate.num <= rec.rate.den

\* C3, its concrete scenario: n = 1000 and max_points = 500 keep exactly the
\* 500 points at indices 0, 2, ..., 998.
Scenario3 ==
  Slice([i \in 1..1000 |-> i - 1], Factor(1000, MAX_POINTS)) = [p \in 1..500 |-> 2 * (p - 1)]

\* C3: for n > max_points the outputs are the inputs at the multiples of
\* stride = n // max_points below n: values'[p] = values[p*stride],
\* times'[p] = times[p*stride], matrix'[p,q] = matrix[p*stride, q*stride];
\* index 0 is retained and the three outputs have the same length.
C3_DownsampleStride ==
  (Downsampled /\ Len(inp.data) > inp.max_points) =>
    LET n == Len(inp.data)
        stride == n \div inp.max_points
        kept == {p \in 0..(n - 1) : p * stride < n}
        L == Cardinality(kept)
    IN /\ 0 \in kept
       /\ Len(vis.data) = L
       /\ Len(vis.time) = L
       /\ Len(vis.matrix) = L
       /\ \A p \in kept :
            /\ vis.data[p + 1] = inp.data[p * stride + 1]
            /\ vis.time[p + 1] = inp.time[p * stride + 1]
            /\ Len(vis.matrix[p + 1]) = L
            /\ \A q \in kept :
                 vis.matrix[p + 1][q + 1] = rec.matrix[p * stride + 1][q * stride + 1]
       /\ Scenario3

C3_Witness ==
  /\ Downsampled
  /\ Len(inp.data) = 5
  /\ inp.max_points = 2
  /\ Len(vis.data) = 3
  /\ vis.data # SubSeq(inp.data, 1, 3)

\* The matrix rebuilt from a record: zeros of the recorded size, 1 at every pair.
Reconstruct(size, sparse) ==
  [r \in 1..size |-> [c \in 1..size |->
     IF \E k \in 1..Len(sparse) : sparse[k] = <<r - 1, c - 1>> THEN 1 ELSE 0]]

\* C4: rebuilding from matrix_size and sparse_matrix of the record gives
\* exactly the (possibly downsampled) matrix that was encoded; every 1-entry
\* is emitted exactly once and no 0-entry is emitted.
C4_SparseRoundTrip ==
  Encoded =>
    LET sp == result.visualization.sparse_matrix
        size == result.visualization.matrix_size
    IN /\ \A k \in 1..Len(sp) : sp[k][1] \in 0..(size - 1) /\ sp[k][2] \in 0..(size - 1)
       /\ Reconstruct(size, sp) = vis.matrix
       /\ \A k, l \in 1..Len(sp) : k # l => sp[k] # sp[l]
       /\ \A k \in 1..Len(sp) : vis.matrix[sp[k][1] + 1][sp[k][2] + 1] = 1
       /\ Len(sp) = MatrixSum(vis.matrix)

C4_Witness ==
  /\ Encoded
  /\ Len(inp.data) > inp.max_points
  /\ Len(vis.matrix) < Len(rec.matrix)
  /\ OffDiagonalOnes(vis.matrix) > 0
  /\ \E r, c \in 1..Len(vis.matrix) : vis.matrix[r][c] = 0

\* C5: with n <= max_points the three inputs come back unchanged; and a second
\* application with the same max_points gives what the first gave, whenever
\* the length after the first is at most max_points.
C5_DownsampleIdempotent ==
  /\ ((Downsampled /\ Len(inp.data) <= inp.max_points) =>
        vis = [data |-> inp.data, time |-> inp.time, matrix |-> rec.matrix])
  /\ ((fpc = "done" /\ Len(vis.data) <= inp.max_points) => vis2 = vis)

C5_Witness ==
  /\ fpc = "done"
  /\ Len(inp.data) > inp.max_points
  /\ Len(vis.data) = inp.max_points
  /\ Len(vis.data) >= 2
  /\ vis2 = vis

\* C10: for n > max_points >= 1 the returned length L (of both arrays and of
\* the matrix side) satisfies max_points <= L <= 2*max_points - 1; a second
\* application with the same max_points has stride 1 and changes nothing.
C10_DownsampledLengthBounds ==
  (Downsampled /\ Len(inp.data) > inp.max_points) =>
    LET L == Len(vis.data)
    IN /\ Len(vis.time) = L
       /\ Len(vis.matrix) = L
       /\ \A r \in 1..L : Len(vis.matrix[r]) = L
       /\ inp.max_points <= L
       /\ L <= 2 * inp.max_points - 1
       /\ (L > inp.max_points => L \div inp.max_points = 1)
       /\ (fpc = "done" => vis2 = vis)

C10_Witness ==
  /\ fpc = "done"
  /\ inp.max_points >= 2
  /\ Len(inp.data) > inp.max_points
  /\ Len(vis.data) = 2 * inp.max_points - 1
  /\ vis2 = vis

-----------------------------------------------------------------------------
\* Properties of the batch (checked under Spec)

Called == last # None

\* The source of the last call has the Time column and a value column.
Readable(f) == f.exists /\ HasTime(f) /\ Len(DataCols(f)) > 0

RECURSIVE MinSeq(_)
MinSeq(s) ==
  IF Len(s) = 1 THEN s[1]
  ELSE IF s[1] <= MinSeq(Tail(s)) THEN s[1] ELSE MinSeq(Tail(s))

RECURSIVE MaxSeq(_)
MaxSeq(s) ==
  IF Len(s) = 1 THEN s[1]
  ELSE IF s[1] >= MaxSeq(Tail(s)) THEN s[1] ELSE MaxSeq(Tail(s))

\* C6: a pair whose cleaned series has fewer than 10 points is rejected before
\* any pipeline stage runs and emits no record; the loop skips it and goes on
\* with the pairs that remain.
C6_ShortSeriesSkipped ==
  [][(/\ pc = "types"
      /\ di < Len(DataTypes)
      /\ Readable(last'.file)
      /\ Len(DataClean(last'.file)) < 10)
     => (/\ last'.outcome.kind = "return"
         /\ last'.outcome.value = None
         /\ last'.outcome.stages = <<>>
         /\ rqa_results' = rqa_results
         /\ outputs' = outputs
         /\ pc' = "types"
         /\ vi' = vi
         /\ di' = di + 1)]_vars

C6_Witness ==
  /\ Called
  /\ Readable(last.file)
  /\ Len(DataClean(last.file)) = 9
  /\ last.data_type = "a"
  /\ Len(DataTypes) = 2
  /\ pc = "types"
  /\ di = 1
  /\ rqa_results = <<>>

\* C7: a cleaned series of at least 10 points that are all equal is signalled
\* as degenerate and no record is emitted for it.
C7_ConstantSeriesRejected ==
  (/\ Called
   /\ Readable(last.file)
   /\ Len(DataClean(last.file)) >= 10
   /\ \A k \in 1..Len(DataClean(last.file)) : DataClean(last.file)[k] = DataClean(last.file)[1])
  => (/\ last.outcome.value = None
      /\ \A k \in 1..Len(rqa_results) : rqa_results[k].key # last.data_type)

\* C8: a pair whose source lacks the time column or the value column is skipped
\* without a record and never aborts the batch.
C8_MissingColumnSkipped ==
  (/\ Called
   /\ last.file.exists
   /\ (~HasTime(last.file) \/ Len(DataCols(last.file)) = 0))
  => (/\ last.outcome.kind = "return"
      /\ last.outcome.value = None
      /\ pc # "crashed")

\* C9: in every emitted record, time_range and its copy in full_data are
\* [min, max] over all cleaned time values, in whatever order the times come.
C9_TimeRangeIsMinMax ==
  (Called /\ last.outcome.value # None) =>
    LET t == TimeClean(last.file)
    IN /\ last.outcome.value.time_range = <<MinSeq(t), MaxSeq(t)>>
       /\ last.outcome.value.full_data.time_range = <<MinSeq(t), MaxSeq(t)>>

=============================================================================
